---- MODULE Spec2Model ----
(***************************************************************************)
(* Model of apps/passport-server/src/services/pagerDutyService.ts:         *)
(* startPagerDutyService, the PagerDutyService class with its two async    *)
(* operations triggerIncident and resolveIncident, and getPolicyId.        *)
(*                                                                         *)
(* An optional JavaScript value is a sequence of length 0 (undefined) or 1 *)
(* (the value).  An async operation is two steps: the code up to the       *)
(* await, and the code that runs when the awaited transport call settles.  *)
(***************************************************************************)
EXTENDS Naturals, Sequences, FiniteSets, TLC

VARIABLES env, booted, service, bootLog, inv, uuidLog

vars == <<env, booted, service, bootLog, inv, uuidLog>>

(* Number of triggerIncident / resolveIncident invocations a behaviour makes. *)
MaxInv == 2

Undefined == <<>>

Some(x) == <<x>>

InvIds == 1..MaxInv

(* ---- inputs ---------------------------------------------------------- *)

(* Values a process environment variable can have: unset, empty, a value. *)
ApiKeyValues == {Undefined, Some(""), Some("pd-token")}

ServiceIdValues == {Undefined, Some(""), Some("PSVC01")}

Statuses == {200, 201, 400}

ResolveIds == {"INC1"}

(* ---- module-level constants of the source ---------------------------- *)

SERVICE_NAME == "PagerDutyService"

LOG_TAG == "[PagerDutyService]"

ESCALATION_POLICIES ==
    ("Everyone" :> "P6SUJ1N") @@ ("JustIvan" :> "P3PE907") @@ ("JustRichard" :> "P88YCS9")

(* The keys of Record<IncidentPolicy, string>: the enumeration's values. *)
IncidentPolicy == DOMAIN ESCALATION_POLICIES

(* Argument lists (title, message, policyName, incidentKey) of the modelled *)
(* triggerIncident calls: every optional argument omitted, each one        *)
(* supplied alone with each of its values, and all of them supplied.       *)
TriggerArgs ==
    {[title |-> "DB down", message |-> Undefined, policyName |-> Undefined, incidentKey |-> Undefined],
     [title |-> "DB down", message |-> Some("disk full"), policyName |-> Undefined, incidentKey |-> Undefined],
     [title |-> "DB down", message |-> Some("disk full"), policyName |-> Some("JustIvan"), incidentKey |-> Some("abc")]}
    \cup {[title |-> "DB down", message |-> Undefined, policyName |-> Some(p), incidentKey |-> Undefined] :
            p \in IncidentPolicy}
    \cup {[title |-> "DB down", message |-> Undefined, policyName |-> Undefined, incidentKey |-> Some(k)] :
            k \in {"", "abc"}}

(* A lookup table that lost one entry: the value reads back as empty. *)
getPolicyIdMissingEntry(name) ==
    IF name = "JustRichard" THEN "" ELSE ESCALATION_POLICIES[name]

getPolicyId(name) == ESCALATION_POLICIES[name]

(* x || d takes the default for every falsy x, the empty string included. *)
isNullishOrEmpty(x) == x = Undefined \/ x[1] = ""

(* The test of x ?? d: the default is taken for an undefined x only. *)
isNullish(x) == x = Undefined

(* !x for an optional string: undefined and "" are falsy. *)
Falsy(x) == x = Undefined \/ x[1] = ""

(* uuid(): the n-th token the generator hands out. *)
uuid(n) == "uuid-" \o ToString(n)

(* ---- bootstrap -------------------------------------------------------- *)

PagerDutyServiceNew(token, serviceId) == [token |-> token, serviceId |-> serviceId]

(* The second presence check repeats the first variable. *)
startResultSameVariable(e) ==
    IF Falsy(e.PAGER_DUTY_API_KEY)
    THEN [ret |-> Undefined,
          log |-> <<"[INIT] attempting to start pager duty",
                    "[INIT] can't start pager duty - missing environment variable PAGER_DUTY_API_KEY">>]
    ELSE [ret |-> Some(PagerDutyServiceNew(e.PAGER_DUTY_API_KEY[1],
                                           IF e.PAGER_DUTY_SERVICE_ID = Undefined THEN "undefined"
                                           ELSE e.PAGER_DUTY_SERVICE_ID[1])),
          log |-> <<"[INIT] attempting to start pager duty">>]

(* The value startPagerDutyService returns (Undefined stands for null) and *)
(* the lines it logs.                                                      *)
startResult(e) ==
    IF Falsy(e.PAGER_DUTY_API_KEY)
    THEN [ret |-> Undefined,
          log |-> <<"[INIT] attempting to start pager duty",
                    "[INIT] can't start pager duty - missing environment variable PAGER_DUTY_API_KEY">>]
    ELSE IF Falsy(e.PAGER_DUTY_SERVICE_ID)
    THEN [ret |-> Undefined,
          log |-> <<"[INIT] attempting to start pager duty",
                    "[INIT] can't start pager duty - missing environment variable PAGER_DUTY_API_KEY">>]
    ELSE [ret |-> Some(PagerDutyServiceNew(e.PAGER_DUTY_API_KEY[1], e.PAGER_DUTY_SERVICE_ID[1])),
          log |-> <<"[INIT] attempting to start pager duty">>]

startPagerDutyService ==
    /\ ~booted
    /\ booted' = TRUE
    /\ service' = startResult(env).ret
    /\ bootLog' = startResult(env).log
    /\ UNCHANGED <<env, inv, uuidLog>>

(* ---- invocations ------------------------------------------------------ *)

NoSpan == [request |-> Undefined, responseBody |-> Undefined, error |-> Undefined]

Idle ==
    [pc |-> "idle", op |-> "none",
     title |-> "", messageArg |-> Undefined, policyName |-> Undefined,
     incidentKeyArg |-> Undefined, id |-> "",
     incidentKey |-> Undefined, message |-> Undefined,
     calls |-> <<>>, res |-> Undefined, completion |-> Undefined,
     logs |-> <<>>, span |-> NoSpan]

Return(v) == [type |-> "return", value |-> v, error |-> ""]

Throw(e) == [type |-> "throw", value |-> Undefined, error |-> e]


(* ---- transport -------------------------------------------------------- *)

TransportThrew == [threw |-> TRUE, status |-> 0, data |-> Undefined]

Answer(status, data) == [threw |-> FALSE, status |-> status, data |-> data]

IncidentBody(id, key) == Some([incident |-> Some([id |-> id, incident_key |-> key])])

NoIncidentBody == Some([incident |-> Undefined])

(* What api.post("/incidents", ...) can settle with: an exception, or a   *)
(* status with no body, a body without an incident object, or an incident *)
(* whose incident_key echoes the request or is the provider's own.         *)
PostResponses(l) ==
    {TransportThrew}
    \cup {Answer(201, d) : d \in {Undefined, NoIncidentBody,
                                  IncidentBody("INC1", l.incidentKey[1]),
                                  IncidentBody("INC1", "abc")}}
    \cup {Answer(s, d) : s \in Statuses \ {201},
                         d \in {NoIncidentBody, IncidentBody("INC1", l.incidentKey[1])}}

PutResponses ==
    {TransportThrew} \cup {Answer(s, d) : s \in Statuses, d \in {Undefined, NoIncidentBody}}

(* ---- triggerIncident -------------------------------------------------- *)

(* The key is kept in one place shared by the calls on the instance. *)
incidentRequestSharedKey(serviceId, title, incidentKey, message, policyId) ==
    [headers |-> [From |-> "ivan@0xparc.org"],
     data |->
       [incident |->
          [type |-> "incident", title |-> title,
           service |-> [id |-> serviceId, type |-> "service_reference"],
           urgency |-> "high",
           incident_key |-> IF inv[1].incidentKey # Undefined
                            THEN inv[1].incidentKey[1] ELSE incidentKey,
           body |-> [type |-> "incident_body", details |-> message]],
        escalation_policy |-> [id |-> policyId]]]

incidentRequest(serviceId, title, incidentKey, message, policyId) ==
    [headers |-> [From |-> "ivan@0xparc.org"],
     data |->
       [incident |->
          [type |-> "incident", title |-> title,
           service |-> [id |-> serviceId, type |-> "service_reference"],
           urgency |-> "high",
           incident_key |-> incidentKey,
           body |-> [type |-> "incident_body", details |-> message]],
        escalation_policy |-> [id |-> policyId]]]

(* Lines 36-67: the call up to the await of api.post. *)
triggerIncident(i) ==
    /\ service # Undefined
    /\ inv[i].pc = "idle"
    /\ IF i = 1 THEN TRUE ELSE inv[i - 1].pc # "idle"
    /\ \E a \in TriggerArgs :
         LET generate == isNullish(a.incidentKey)
             incidentKey == IF generate THEN uuid(Len(uuidLog) + 1) ELSE a.incidentKey[1]
             message == IF isNullish(a.message) THEN "" ELSE a.message[1]
             policyId == getPolicyId(IF isNullish(a.policyName) THEN "Everyone"
                                     ELSE a.policyName[1])
             request == incidentRequest(service[1].serviceId, a.title, incidentKey,
                                        message, policyId)
         IN /\ uuidLog' = IF generate THEN Append(uuidLog, i) ELSE uuidLog
            /\ inv' = [inv EXCEPT ![i] =
                 [@ EXCEPT !.pc = "awaitPost", !.op = "trigger",
                           !.title = a.title, !.messageArg = a.message,
                           !.policyName = a.policyName,
                           !.incidentKeyArg = a.incidentKey,
                           !.incidentKey = Some(incidentKey),
                           !.message = Some(message),
                           !.logs = <<<<LOG_TAG, "triggering incident", a.title, incidentKey>>>>,
                           !.span = [@ EXCEPT !.request = Some(request)],
                           !.calls = <<[method |-> "POST", url |-> "/incidents",
                                        token |-> service[1].token,
                                        request |-> request]>>]]
    /\ UNCHANGED <<env, booted, service, bootLog>>

(* The status test lets every status below 400 through. *)
triggerTryBelow400(l, res) ==
    IF res.threw THEN Throw("transport error")
    ELSE IF res.status >= 400 THEN Throw("failed to invoke pagerduty")
    ELSE IF res.data = Undefined \/ res.data[1].incident = Undefined
    THEN Throw("TypeError")
    ELSE Return(Some([id |-> res.data[1].incident[1].id,
                      key |-> res.data[1].incident[1].incident_key]))

(* The handle is built from the key the call sent, not the response's. *)
triggerTryLocalKey(l, res) ==
    IF res.threw THEN Throw("transport error")
    ELSE IF res.status # 201 THEN Throw("failed to invoke pagerduty")
    ELSE IF res.data = Undefined \/ res.data[1].incident = Undefined
    THEN Throw("TypeError")
    ELSE Return(Some([id |-> res.data[1].incident[1].id,
                      key |-> l.incidentKey[1] \o "-local"]))

(* The two fields of the handle are taken from each other's place. *)
triggerTrySwapped(l, res) ==
    IF res.threw THEN Throw("transport error")
    ELSE IF res.status # 201 THEN Throw("failed to invoke pagerduty")
    ELSE IF res.data = Undefined \/ res.data[1].incident = Undefined
    THEN Throw("TypeError")
    ELSE Return(Some([id |-> res.data[1].incident[1].incident_key,
                      key |-> res.data[1].incident[1].id]))

(* Lines 67-80, the try block after the await: how it completes.  A      *)
(* rejected post, a status other than 201 and the read of a property of  *)
(* an undefined body or incident all throw.                              *)
triggerTry(l, res) ==
    IF res.threw THEN Throw("transport error")
    ELSE IF res.status # 201 THEN Throw("failed to invoke pagerduty")
    ELSE IF res.data = Undefined \/ res.data[1].incident = Undefined
    THEN Throw("TypeError")
    ELSE Return(Some([id |-> res.data[1].incident[1].id,
                      key |-> res.data[1].incident[1].incident_key]))

(* The handler logs, records the error and throws it again. *)
triggerCatchRethrow(l, e) ==
    [completion |-> Throw(e),
     logs |-> <<<<LOG_TAG, "failed to start incident", l.title, l.incidentKey[1], e>>>>,
     error |-> Some(e)]

(* Lines 81-89, the catch block: logger, setError, return undefined. *)
triggerCatch(l, e) ==
    [completion |-> Return(Undefined),
     logs |-> <<<<LOG_TAG, "failed to start incident", l.title, l.incidentKey[1], e>>>>,
     error |-> Some(e)]

(* What the rest of the call does with the settled post. *)
triggerOutcome(l, res) ==
    LET c == triggerTry(l, res)
    IN IF c.type = "throw" THEN triggerCatch(l, c.error)
       ELSE [completion |-> c, logs |-> <<>>, error |-> Undefined]

(* A failed post is sent once more before the call gives up. *)
triggerIncidentSettledRetry(i) ==
    /\ inv[i].pc = "awaitPost"
    /\ \E res \in PostResponses(inv[i]) :
         LET l == inv[i]
             out == triggerOutcome(l, res)
             retry == out.error # Undefined /\ Len(l.calls) < 2
         IN inv' = [inv EXCEPT ![i] =
              IF retry
              THEN [@ EXCEPT !.calls = Append(@, l.calls[1])]
              ELSE [@ EXCEPT !.pc = "done", !.res = Some(res),
                             !.completion = Some(out.completion),
                             !.logs = @ \o out.logs,
                             !.span = [@ EXCEPT !.responseBody =
                                          IF res.threw THEN Undefined ELSE Some(res.data),
                                        !.error = out.error]]]
    /\ UNCHANGED <<env, booted, service, bootLog, uuidLog>>

(* Lines 67-90: the awaited post settles and the call runs to its end. *)
triggerIncidentSettled(i) ==
    /\ inv[i].pc = "awaitPost"
    /\ \E res \in PostResponses(inv[i]) :
         LET l == inv[i]
             out == triggerOutcome(l, res)
         IN inv' = [inv EXCEPT ![i] =
              [@ EXCEPT !.pc = "done", !.res = Some(res),
                        !.completion = Some(out.completion),
                        !.logs = @ \o out.logs,
                        !.span = [@ EXCEPT !.responseBody =
                                     IF res.threw THEN Undefined ELSE Some(res.data),
                                   !.error = out.error]]]
    /\ UNCHANGED <<env, booted, service, bootLog, uuidLog>>

(* ---- resolveIncident -------------------------------------------------- *)

resolveRequest ==
    [headers |-> [From |-> "ivan@0xparc.org"],
     data |-> [incident |-> [type |-> "incident_reference", status |-> "resolved"]]]

(* Lines 94-107: the call up to the await of api.put. *)
resolveIncident(i) ==
    /\ service # Undefined
    /\ inv[i].pc = "idle"
    /\ IF i = 1 THEN TRUE ELSE inv[i - 1].pc # "idle"
    /\ \E id \in ResolveIds :
         LET url == "/incidents/" \o id
         IN inv' = [inv EXCEPT ![i] =
              [@ EXCEPT !.pc = "awaitPut", !.op = "resolve", !.id = id,
                        !.logs = <<<<LOG_TAG, "resolving incident", id, url>>>>,
                        !.span = [@ EXCEPT !.request = Some(resolveRequest)],
                        !.calls = <<[method |-> "PUT", url |-> url,
                                     token |-> service[1].token,
                                     request |-> resolveRequest]>>]]
    /\ UNCHANGED <<env, booted, service, bootLog, uuidLog>>

(* The status test is left out: every answer counts as resolved. *)
resolveTryNoStatusTest(l, res) ==
    IF res.threw
    THEN [completion |-> Throw("transport error"), logs |-> <<>>]
    ELSE [completion |-> Return(Undefined),
          logs |-> <<<<LOG_TAG, "resolved incident", l.id>>>>]

(* Lines 107-117, the try block after the await. *)
resolveTry(l, res) ==
    IF res.threw
    THEN [completion |-> Throw("transport error"), logs |-> <<>>]
    ELSE IF res.status # 200
    THEN [completion |-> Throw("failed to resolve pagerduty"), logs |-> <<>>]
    ELSE [completion |-> Return(Undefined),
          logs |-> <<<<LOG_TAG, "resolved incident", l.id>>>>]

(* Lines 118-121, the catch block: setError, logger. *)
resolveCatch(l, e) ==
    [completion |-> Return(Undefined),
     logs |-> <<<<LOG_TAG, "failed to start incident", l.id, e>>>>,
     error |-> Some(e)]

resolveOutcome(l, res) ==
    LET t == resolveTry(l, res)
    IN IF t.completion.type = "throw" THEN resolveCatch(l, t.completion.error)
       ELSE [completion |-> t.completion, logs |-> t.logs, error |-> Undefined]

(* Lines 107-122: the awaited put settles and the call runs to its end. *)
resolveIncidentSettled(i) ==
    /\ inv[i].pc = "awaitPut"
    /\ \E res \in PutResponses :
         LET l == inv[i]
             out == resolveOutcome(l, res)
         IN inv' = [inv EXCEPT ![i] =
              [@ EXCEPT !.pc = "done", !.res = Some(res),
                        !.completion = Some(out.completion),
                        !.logs = @ \o out.logs,
                        !.span = [@ EXCEPT !.responseBody =
                                     IF res.threw THEN Undefined ELSE Some(res.data),
                                   !.error = out.error]]]
    /\ UNCHANGED <<env, booted, service, bootLog, uuidLog>>

Init ==
    /\ env \in [PAGER_DUTY_API_KEY : ApiKeyValues, PAGER_DUTY_SERVICE_ID : ServiceIdValues]
    /\ booted = FALSE
    /\ service = Undefined
    /\ bootLog = <<>>
    /\ inv = [i \in InvIds |-> Idle]
    /\ uuidLog = <<>>

Next ==
    \/ startPagerDutyService
    \/ \E i \in InvIds : triggerIncident(i)
    \/ \E i \in InvIds : triggerIncidentSettled(i)
    \/ \E i \in InvIds : resolveIncident(i)
    \/ \E i \in InvIds : resolveIncidentSettled(i)

Spec == Init /\ [][Next]_vars

(* ======================================================================= *)
(* Properties                                                              *)
(* ======================================================================= *)

Triggers == {i \in InvIds : inv[i].op = "trigger"}

Resolves == {i \in InvIds : inv[i].op = "resolve"}

DoneIds == {i \in InvIds : inv[i].pc = "done"}

Res(i) == inv[i].res[1]

Completion(i) == inv[i].completion[1]

SentKey(i) == inv[i].calls[1].request.data.incident.incident_key

HasIncident(r) == ~r.threw /\ r.data # Undefined /\ r.data[1].incident # Undefined

HasLog(i, text) == \E k \in DOMAIN inv[i].logs : inv[i].logs[k][2] = text

Generated(i) == \E k \in DOMAIN uuidLog : uuidLog[k] = i

OwnToken(i) == uuid(CHOOSE k \in DOMAIN uuidLog : uuidLog[k] = i)

EnvConfigured == env.PAGER_DUTY_API_KEY \notin {Undefined, Some("")}
                 /\ env.PAGER_DUTY_SERVICE_ID \notin {Undefined, Some("")}

(* C1: a finished triggerIncident or resolveIncident has returned, never   *)
(* raised, whatever the transport did (any status, any body, an exception):*)
(* trigger returned a handle or undefined, resolve returned no value, and  *)
(* a failure of the call is recorded on the span instead of propagating.   *)
C1_NeverRaises ==
    \A i \in DoneIds :
        /\ Completion(i).type = "return"
        /\ i \in Resolves => Completion(i).value = Undefined
        /\ i \in Triggers => Len(Completion(i).value) \in {0, 1}
        /\ Res(i).threw => inv[i].span.error # Undefined /\ Completion(i).value = Undefined
        /\ (i \in Triggers /\ Res(i).status = 201 /\ ~HasIncident(Res(i)))
              => inv[i].span.error # Undefined /\ Completion(i).value = Undefined

C1_Witness ==
    /\ \E i \in DoneIds \cap Triggers : Res(i).threw /\ Completion(i).type = "return"
    /\ \E j \in DoneIds \cap Resolves : Res(j).threw /\ Completion(j).type = "return"

(* C2 as stated: every 201 answer to the POST makes trigger return a       *)
(* handle whose id and key are the incident's id and incident_key.         *)
C2_Original ==
    \A i \in DoneIds \cap Triggers :
        (~Res(i).threw /\ Res(i).status = 201)
          => /\ HasIncident(Res(i))
             /\ Completion(i).value =
                  Some([id |-> Res(i).data[1].incident[1].id,
                        key |-> Res(i).data[1].incident[1].incident_key])

(* C2: a 201 answer whose body carries an incident object makes trigger    *)
(* return the handle {id: incident.id, key: incident.incident_key} of that *)
(* body, for every argument list.                                          *)
C2_HandleFromResponse ==
    \A i \in DoneIds \cap Triggers :
        (Res(i).status = 201 /\ HasIncident(Res(i)))
          => /\ Completion(i).type = "return"
             /\ Completion(i).value =
                  Some([id |-> Res(i).data[1].incident[1].id,
                        key |-> Res(i).data[1].incident[1].incident_key])

C2_Witness ==
    \E i \in DoneIds \cap Triggers :
        /\ Res(i).status = 201 /\ HasIncident(Res(i))
        /\ Res(i).data[1].incident[1].incident_key # SentKey(i)
        /\ Completion(i).value # Undefined

(* C3: a POST answered with a status other than 201 makes trigger return   *)
(* undefined, with the failure logged and the error recorded on the span.  *)
C3_Non201ReturnsUndefined ==
    \A i \in DoneIds \cap Triggers :
        (~Res(i).threw /\ Res(i).status # 201)
          => /\ Completion(i) = Return(Undefined)
             /\ HasLog(i, "failed to start incident")
             /\ inv[i].span.error # Undefined

C3_Witness ==
    \E i \in DoneIds \cap Triggers :
        Res(i).status = 200 /\ HasIncident(Res(i)) /\ Completion(i) = Return(Undefined)

(* C4: resolve answered with 200 logs the confirmation and records no      *)
(* error; answered with another status it logs the failure, records the    *)
(* error and never logs the confirmation; both return no value.            *)
C4_ResolveStatus ==
    \A i \in DoneIds \cap Resolves :
        ~Res(i).threw =>
          /\ Completion(i) = Return(Undefined)
          /\ Res(i).status = 200 =>
                HasLog(i, "resolved incident") /\ inv[i].span.error = Undefined
          /\ Res(i).status # 200 =>
                /\ HasLog(i, "failed to start incident")
                /\ inv[i].span.error # Undefined
                /\ ~HasLog(i, "resolved incident")

C4_Witness ==
    /\ \E i \in DoneIds \cap Resolves : Res(i).status = 200 /\ HasLog(i, "resolved incident")
    /\ \E j \in DoneIds \cap Resolves : Res(j).status = 201 /\ ~HasLog(j, "resolved incident")

(* C5 as stated: with both variables set (to anything) the bootstrap       *)
(* returns an instance; with either missing it returns null and nothing is *)
(* sent.                                                                   *)
C5_Original ==
    booted =>
      IF env.PAGER_DUTY_API_KEY # Undefined /\ env.PAGER_DUTY_SERVICE_ID # Undefined
      THEN service # Undefined
      ELSE service = Undefined /\ \A i \in InvIds : inv[i].calls = <<>>

(* C5: with both variables set to a non-empty value the bootstrap returns  *)
(* an instance built from them; with either one missing or empty it        *)
(* returns null, and then no instance exists and no HTTP call is made.     *)
C5_Bootstrap ==
    /\ booted =>
         IF EnvConfigured
         THEN service = Some([token |-> env.PAGER_DUTY_API_KEY[1],
                              serviceId |-> env.PAGER_DUTY_SERVICE_ID[1]])
         ELSE service = Undefined /\ \A i \in InvIds : inv[i].calls = <<>>
    /\ ~booted => service = Undefined /\ \A i \in InvIds : inv[i].calls = <<>>

C5_Witness ==
    /\ booted
    /\ env.PAGER_DUTY_API_KEY = Some("pd-token")
    /\ env.PAGER_DUTY_SERVICE_ID = Undefined
    /\ service = Undefined

(* C6: an invocation issues exactly one HTTP call, POST /incidents for     *)
(* trigger and PUT /incidents/{id} for resolve, and no second one after a  *)
(* failure.                                                                *)
C6_OneCall ==
    \A i \in InvIds :
        /\ inv[i].pc = "idle" => inv[i].calls = <<>>
        /\ inv[i].pc # "idle" => Len(inv[i].calls) = 1
        /\ i \in Triggers =>
              inv[i].calls[1].method = "POST" /\ inv[i].calls[1].url = "/incidents"
        /\ i \in Resolves =>
              inv[i].calls[1].method = "PUT" /\ inv[i].calls[1].url = "/incidents/" \o inv[i].id

C6_Witness ==
    /\ \E i \in DoneIds \cap Triggers : inv[i].span.error # Undefined /\ Len(inv[i].calls) = 1
    /\ \E j \in DoneIds \cap Resolves : inv[j].span.error # Undefined /\ Len(inv[j].calls) = 1

(* C7 as stated: the key of a returned handle is the deduplication key the *)
(* invocation sent (the caller's, or the one generated for the call).      *)
C7_Original ==
    \A i \in DoneIds \cap Triggers :
        Completion(i).value # Undefined => Completion(i).value[1].key = SentKey(i)

(* C7: the key of a returned handle is the incident_key of the response    *)
(* body; when the provider echoes the key it was sent, that is the         *)
(* caller's dedupKey if one was passed and else the token generated for    *)
(* this call.                                                              *)
C7_HandleKey ==
    \A i \in DoneIds \cap Triggers :
        Completion(i).value # Undefined =>
          /\ HasIncident(Res(i))
          /\ Completion(i).value[1].key = Res(i).data[1].incident[1].incident_key
          /\ Res(i).data[1].incident[1].incident_key = SentKey(i) =>
                Completion(i).value[1].key =
                   IF inv[i].incidentKeyArg # Undefined THEN inv[i].incidentKeyArg[1]
                   ELSE OwnToken(i)

C7_Witness ==
    \E i \in DoneIds \cap Triggers :
        /\ inv[i].incidentKeyArg = Undefined
        /\ Completion(i).value # Undefined
        /\ Completion(i).value[1].key = OwnToken(i)

(* C8 as stated: the enumeration has four values, each with a non-empty    *)
(* identifier, and a trigger without a policy sends Everyone's.            *)
C8_Original ==
    /\ Cardinality(IncidentPolicy) = 4
    /\ \A p \in IncidentPolicy : getPolicyId(p) # ""
    /\ \A i \in Triggers :
          inv[i].policyName = Undefined =>
             inv[i].calls[1].request.data.escalation_policy.id = getPolicyId("Everyone")

(* C8: the enumeration has three values; getPolicyId gives each of them    *)
(* its one non-empty identifier, and a trigger called without a policy     *)
(* sends the identifier of Everyone in escalation_policy.id.               *)
C8_PolicyLookup ==
    /\ Cardinality(IncidentPolicy) = 3
    /\ \A p \in IncidentPolicy : getPolicyId(p) # ""
    /\ \A i \in Triggers :
          /\ inv[i].policyName = Undefined =>
                inv[i].calls[1].request.data.escalation_policy.id = "P6SUJ1N"
          /\ inv[i].policyName # Undefined =>
                /\ inv[i].calls[1].request.data.escalation_policy.id # ""
                /\ inv[i].calls[1].request.data.escalation_policy.id
                     = ESCALATION_POLICIES[inv[i].policyName[1]]

C8_Witness ==
    /\ \E i \in Triggers :
          inv[i].policyName = Undefined
          /\ inv[i].calls[1].request.data.escalation_policy.id = "P6SUJ1N"
    /\ \E j \in Triggers : inv[j].policyName = Some("JustRichard")

(* C9: a trigger that omits dedupKey sends a key generated for that call,  *)
(* and two such calls send different keys; a trigger that supplies         *)
(* dedupKey sends exactly it and generates none.                           *)
C9_FreshKeys ==
    /\ \A i \in Triggers :
          IF inv[i].incidentKeyArg = Undefined
          THEN Generated(i) /\ SentKey(i) = OwnToken(i)
          ELSE ~Generated(i) /\ SentKey(i) = inv[i].incidentKeyArg[1]
    /\ \A i, j \in Triggers :
          (i # j /\ inv[i].incidentKeyArg = Undefined /\ inv[j].incidentKeyArg = Undefined)
             => SentKey(i) # SentKey(j)
    /\ \A k, m \in DOMAIN uuidLog : k # m => uuidLog[k] # uuidLog[m]

C9_Witness ==
    \E i, j \in Triggers :
        /\ i # j
        /\ inv[i].incidentKeyArg = Undefined /\ inv[j].incidentKeyArg = Undefined
        /\ SentKey(i) # SentKey(j)

(* C10: in every interleaving, the request an invocation sent is the one   *)
(* its own arguments and the configuration give, its result is the one its *)
(* own response gives, and the configuration is the one set at             *)
(* construction.                                                           *)
C10_NoInterference ==
    /\ booted /\ EnvConfigured =>
          service = Some([token |-> env.PAGER_DUTY_API_KEY[1],
                          serviceId |-> env.PAGER_DUTY_SERVICE_ID[1]])
    /\ \A i \in Triggers :
          /\ inv[i].calls[1].token = env.PAGER_DUTY_API_KEY[1]
          /\ inv[i].calls[1].request =
               [headers |-> [From |-> "ivan@0xparc.org"],
                data |->
                  [incident |->
                     [type |-> "incident", title |-> inv[i].title,
                      service |-> [id |-> env.PAGER_DUTY_SERVICE_ID[1],
                                   type |-> "service_reference"],
                      urgency |-> "high",
                      incident_key |-> IF inv[i].incidentKeyArg # Undefined
                                       THEN inv[i].incidentKeyArg[1] ELSE OwnToken(i),
                      body |-> [type |-> "incident_body",
                                details |-> IF inv[i].messageArg # Undefined
                                            THEN inv[i].messageArg[1] ELSE ""]],
                   escalation_policy |->
                     [id |-> ESCALATION_POLICIES[IF inv[i].policyName # Undefined
                                                 THEN inv[i].policyName[1] ELSE "Everyone"]]]]
          /\ i \in DoneIds =>
               Completion(i).value =
                  IF Res(i).status = 201 /\ HasIncident(Res(i))
                  THEN Some([id |-> Res(i).data[1].incident[1].id,
                             key |-> Res(i).data[1].incident[1].incident_key])
                  ELSE Undefined
    /\ \A i \in Resolves :
          /\ inv[i].calls[1].token = env.PAGER_DUTY_API_KEY[1]
          /\ inv[i].calls[1].url = "/incidents/" \o inv[i].id
          /\ inv[i].calls[1].request.data.incident.status = "resolved"
          /\ i \in DoneIds => Completion(i).value = Undefined

C10_Witness ==
    /\ MaxInv >= 2
    /\ inv[1].pc = "awaitPost"
    /\ inv[2].pc = "done" /\ inv[2].op = "trigger"
    /\ SentKey(1) # SentKey(2)
    /\ Completion(2).value # Undefined
====
